---- MODULE Spec2Model ----
(***************************************************************************)
(* Model of clone_org_repos.py: main() lists the repositories of an        *)
(* organization through the paginated API (get_repositories), clones the   *)
(* ones that are not local repositories (clone_repositories), syncs the    *)
(* local repositories (sync_repositories) and writes clone_summary.txt.    *)
(*                                                                         *)
(* The disk is the target folder: every name is absent, a plain directory  *)
(* (no .git) or a repository (directory holding .git).  The git            *)
(* subprocesses are external: their result is chosen nondeterministically  *)
(* among exit 0, a non-zero exit, and an exception raised by               *)
(* subprocess.run (TimeoutExpired on a timeout, OSError on a spawn         *)
(* failure).  The status of every page request is chosen                   *)
(* nondeterministically as well.  Timestamps, console output, the token    *)
(* (validate_token is advisory) and the clone URL do not influence any     *)
(* step and are left out; the text of a summary line is reduced to its     *)
(* kind, the repository it names and its numbers.                          *)
(***************************************************************************)
EXTENDS Integers, Sequences, FiniteSets, TLC

\* ---------------------------------------------------------------- bounds
MaxRuns == 2        \* successive runs of main() on the same folder
per_page == 2       \* the page size the API serves (100 in the code, scaled)

\* the names a child of master_folder or a repository can have, in the order
\* in which master_folder.iterdir() lists them
Listing == <<"r1", "r2", "r3">>
Names == {Listing[k] : k \in 1..Len(Listing)}
DiskStates == {"absent", "dir", "repo"}
Statuses == {200, 401, 403, 404, 500}
\* "raises": subprocess.run raised (timeout or spawn failure)
Results == {"ok", "nonzero", "raises"}

VARIABLES
    run,                  \* number of runs of main() started
    pc,                   \* position of main(): idle, fetch, reconcile, clone, sync, done
    served,               \* the organization's repositories, in API order
    disk,                 \* children of master_folder
    summary_file,         \* lines of clone_summary.txt
    page, repos, status,  \* get_repositories: page number, accumulated records, last status
    existing_repo_names,  \* main: names of existing_repos
    clone_list, i,        \* clone_repositories: its repos argument, loop index
    clone_successful, clone_failed,
    sync_pending,         \* sync_repositories: directories iterdir has yet to yield
    sync_successful, sync_failed,
    fetch_result, pull_result, sync_outcome,  \* locals of the sync loop: the last repository synced
    cloned, fetched, pulled,   \* subprocess invocations of this run, per name
    clone_target,         \* state of master_folder/<name> when git clone was started on it
    clone_result,         \* local of the clone loop: result of the last git clone
    disk_before,          \* the children of master_folder when this run started
    prev_obtained,        \* the previous run obtained a non-empty D
    prev_clone_failed     \* some clone of the previous run was counted failed

vars == <<run, pc, served, disk, summary_file, page, repos, status,
          existing_repo_names, clone_list, i, clone_successful, clone_failed,
          sync_pending, sync_successful, sync_failed, fetch_result, pull_result,
          sync_outcome, cloned, fetched, pulled, clone_target, clone_result,
          disk_before, prev_obtained, prev_clone_failed>>

\* ---------------------------------------------------------------- helpers
Min(a, b) == IF a < b THEN a ELSE b

RECURSIVE Count(_, _)
\* number of elements of the sequence s satisfying the flag "private"
Count(s, k) == IF k = 0 THEN 0
               ELSE (IF s[k].private THEN 1 ELSE 0) + Count(s, k - 1)

NamesOf(s) == {s[k].name : k \in 1..Len(s)}

\* a line of the summary file: kind, repository name, two numbers
Line(kind, name, a, b) == <<kind, name, a, b>>
Sep == Line("====", "", 0, 0)
Dash == Line("----", "", 0, 0)

\* get_repo_statistics
get_repo_statistics(rs) ==
    [total |-> Len(rs), public |-> Len(rs) - Count(rs, Len(rs)), private |-> Count(rs, Len(rs))]

\* main, lines 292-298: the run header
Header == <<Sep, Line("CLONE OPERATION SUMMARY", "", 0, 0), Sep,
            Line("Organization", "", 0, 0), Line("Date/Time", "", 0, 0), Sep>>

\* variant of OpenW: the header is written in append mode
OpenWAppend(file, lines) == file \o lines

\* open(summary_file, 'w') in main: the file is truncated, then written
OpenW(file, lines) == lines
\* open(summary_file, 'a'): the lines are appended
OpenA(file, lines) == file \o lines

\* the page the API serves for params {"page": p, "per_page": per_page}
PageOf(p) == SubSeq(served, (p - 1) * per_page + 1, Min(p * per_page, Len(served)))

\* variant of PageEmpty: the loop stops at the first page that is not full
PageEmptyShort(page_repos) == Len(page_repos) < per_page

\* if not page_repos: break
PageEmpty(page_repos) == page_repos = <<>>

\* d.is_dir() and (d / ".git").exists()
IsLocalRepo(st) == st = "repo"
LocalRepos(dsk) == {n \in Names : IsLocalRepo(dsk[n])}

\* variants of MissingRepos: the filter is forgotten; the test is inverted
MissingReposAll(rs, existing) == rs
MissingReposInverted(rs, existing) == SelectSeq(rs, LAMBDA r : r.name \in existing)

\* missing_repos = [repo for repo in repos if repo['name'] not in existing_repo_names]
MissingRepos(rs, existing) == SelectSeq(rs, LAMBDA r : r.name \notin existing)

\* what "git clone url path" can leave at path, by result: exit 0 leaves a
\* repository, a non-zero exit leaves the path as it was, and a clone killed
\* on its timeout (or never spawned) leaves the path as it was or a partial
\* clone, which holds .git
CloneEffect(st, result) ==
    CASE result = "ok" -> {"repo"}
      [] result = "nonzero" -> {st}
      [] result = "raises" -> {st, "repo"}

Raises(result) == result = "raises"

StatsLines(rs) ==
    LET s == get_repo_statistics(rs) IN
    <<Line("REPOSITORY STATISTICS", "", 0, 0), Line("Public", "", s.public, 0),
      Line("Private", "", s.private, 0), Line("Total", "", s.total, 0), Sep>>

CloneHeader == <<Line("CLONED REPOSITORIES", "", 0, 0), Dash>>
SyncHeader == <<Line("SYNC OPERATION", "", 0, 0), Dash>>
CloneFooter(s, f) == <<Dash, Line("SUMMARY", "", s, f), Sep>>
SyncFooter(s, f) == <<Dash, Line("SYNC SUMMARY", "", s, f), Sep>>
FinalStatus(local, rs) ==
    LET s == get_repo_statistics(rs) IN
    <<Line("FINAL STATUS", "", 0, 0), Line("Local", "", local, s.total),
      Line("PublicPrivate", "", s.public, s.private), Sep>>

\* ---------------------------------------------------------------- initial state
RepoRecord(n) == [name |-> n, private |-> n = "r2"]

\* the organizations: sequences of records with distinct names (a name is
\* unique within an organization), in any API order, the empty one included
Orgs ==
    LET idx == UNION {[1..k -> Names] : k \in 0..Cardinality(Names)}
        inj == {f \in idx : \A x, y \in DOMAIN f : f[x] = f[y] => x = y}
    IN {[k \in DOMAIN f |-> RepoRecord(f[k])] : f \in inj}

Init ==
    /\ run = 0
    /\ pc = "idle"
    /\ served \in Orgs
    /\ disk \in [Names -> DiskStates]
    /\ summary_file = <<>>
    /\ page = 1 /\ repos = <<>> /\ status = 200
    /\ existing_repo_names = {}
    /\ clone_list = <<>> /\ i = 1
    /\ clone_successful = 0 /\ clone_failed = 0
    /\ sync_pending = {}
    /\ sync_successful = 0 /\ sync_failed = 0
    /\ fetch_result = "none" /\ pull_result = "none" /\ sync_outcome = "none"
    /\ cloned = [n \in Names |-> 0]
    /\ fetched = [n \in Names |-> 0]
    /\ pulled = [n \in Names |-> 0]
    /\ clone_target = [n \in Names |-> "none"]
    /\ clone_result = "none"
    /\ disk_before = disk
    /\ prev_obtained = FALSE /\ prev_clone_failed = FALSE

\* ---------------------------------------------------------------- main
\* main, lines 270-303: a run starts; the summary file is opened with 'w' and
\* the header written; get_repositories is entered.  The locals of the
\* previous run are gone.
MainStart ==
    /\ pc \in {"idle", "done"}
    /\ run < MaxRuns
    /\ run' = run + 1
    /\ prev_obtained' = (pc = "done" /\ repos # <<>>)
    /\ prev_clone_failed' = (pc = "done" /\ clone_failed > 0)
    /\ disk_before' = disk
    /\ summary_file' = OpenW(summary_file, Header)
    /\ page' = 1 /\ repos' = <<>> /\ status' = 200
    /\ existing_repo_names' = {}
    /\ clone_list' = <<>> /\ i' = 1
    /\ clone_successful' = 0 /\ clone_failed' = 0
    /\ sync_pending' = {}
    /\ sync_successful' = 0 /\ sync_failed' = 0
    /\ fetch_result' = "none" /\ pull_result' = "none" /\ sync_outcome' = "none"
    /\ clone_result' = "none"
    /\ cloned' = [n \in Names |-> 0]
    /\ fetched' = [n \in Names |-> 0]
    /\ pulled' = [n \in Names |-> 0]
    /\ clone_target' = [n \in Names |-> "none"]
    /\ pc' = "fetch"
    /\ UNCHANGED <<served, disk>>

\* variant of ErrorReturn: the loop is left with what was accumulated
ErrorReturnPartial(acc) == acc

\* get_repositories, lines 104-123: what it returns on a status other than
\* 200, whatever it has accumulated
ErrorReturn(acc) == <<>>

\* get_repositories, lines 98-133: one iteration of the page loop; on return,
\* main lines 304-306 end the run when the result is empty
GetPage ==
    /\ pc = "fetch"
    /\ \E st \in Statuses :
        /\ status' = st
        /\ IF st # 200
           THEN /\ repos' = ErrorReturn(repos)
                /\ pc' = IF repos' = <<>> THEN "done" ELSE "reconcile"
                /\ page' = page
           ELSE IF PageEmpty(PageOf(page))
           THEN /\ repos' = repos
                /\ pc' = IF repos = <<>> THEN "done" ELSE "reconcile"
                /\ page' = page
           ELSE /\ repos' = repos \o PageOf(page)
                /\ page' = page + 1
                /\ pc' = "fetch"
    /\ UNCHANGED <<run, served, disk, summary_file, existing_repo_names, clone_list,
                   i, clone_successful, clone_failed, sync_pending, sync_successful,
                   sync_failed, fetch_result, pull_result, sync_outcome, cloned,
                   fetched, pulled, clone_target, clone_result, disk_before,
                   prev_obtained, prev_clone_failed>>

\* variants of SyncDirs: only the repositories the API lists; only the
\* repositories the scan of main found before cloning
SyncDirsDesiredOnly(dsk, rs, existing) == LocalRepos(dsk) \cap NamesOf(rs)
SyncDirsScanned(dsk, rs, existing) == existing

\* the directories sync_repositories works on: the children of master_folder
\* that are directories holding .git when the loop runs (lines 149-150); the
\* function takes master_folder alone, neither repos nor existing_repos
SyncDirs(dsk, rs, existing) == LocalRepos(dsk)

\* main, lines 308-343 and 361-363: statistics, scan of the folder, choice of
\* the path, and the entry of clone_repositories or sync_repositories
Reconcile ==
    /\ pc = "reconcile"
    /\ LET existing == LocalRepos(disk)
           missing == MissingRepos(repos, existing)
           stats == OpenA(summary_file, StatsLines(repos))
       IN /\ existing_repo_names' = existing
          /\ IF existing # {}
             THEN IF missing # <<>>
                  THEN /\ clone_list' = missing
                       /\ summary_file' = OpenA(stats, CloneHeader)
                       /\ pc' = "clone"
                       /\ sync_pending' = sync_pending
                  ELSE /\ clone_list' = <<>>
                       /\ summary_file' = OpenA(stats, SyncHeader)
                       /\ sync_pending' = SyncDirs(disk, repos, existing)
                       /\ pc' = "sync"
             ELSE /\ clone_list' = repos
                  /\ summary_file' = OpenA(stats, CloneHeader)
                  /\ pc' = "clone"
                  /\ sync_pending' = sync_pending
    /\ i' = 1
    /\ UNCHANGED <<run, served, disk, page, repos, status, clone_successful,
                   clone_failed, sync_successful, sync_failed, fetch_result,
                   pull_result, sync_outcome, cloned, fetched, pulled, clone_target,
                   clone_result, disk_before, prev_obtained, prev_clone_failed>>

\* variant of CloneSucceeded: the returncode is not looked at
CloneSucceededExit(result) == result # "raises"

\* clone_repositories, lines 241-259: the clone is counted successful on
\* returncode 0, failed on any other returncode and on an exception
CloneSucceeded(result) == result = "ok"

\* variant of NextIndex: an exception of subprocess.run leaves the loop
NextIndexAbort(idx, result) == IF Raises(result) THEN Len(clone_list) + 1 ELSE idx + 1

\* clone_repositories, line 218: the loop goes on to the next repository
\* whatever the result of the clone was
NextIndex(idx, result) == idx + 1

\* clone_repositories, lines 218-259: one iteration of the loop
CloneOne ==
    /\ pc = "clone"
    /\ i <= Len(clone_list)
    /\ LET repo == clone_list[i]
           n == repo.name
           priv == IF repo.private THEN 1 ELSE 0
       IN \E result \in Results : \E after \in CloneEffect(disk[n], result) :
            /\ clone_result' = result
            /\ i' = NextIndex(i, result)
            /\ cloned' = [cloned EXCEPT ![n] = @ + 1]
            /\ clone_target' = [clone_target EXCEPT ![n] = disk[n]]
            /\ disk' = [disk EXCEPT ![n] = after]
            /\ IF CloneSucceeded(result)
               THEN /\ summary_file' = OpenA(summary_file, <<Line("clone ok", n, priv, 0)>>)
                    /\ clone_successful' = clone_successful + 1
                    /\ clone_failed' = clone_failed
               ELSE /\ summary_file' = OpenA(summary_file, <<Line("clone FAILED", n, priv, 0)>>)
                    /\ clone_failed' = clone_failed + 1
                    /\ clone_successful' = clone_successful
    /\ UNCHANGED <<run, pc, served, page, repos, status, existing_repo_names,
                   clone_list, sync_pending, sync_successful, sync_failed,
                   fetch_result, pull_result, sync_outcome, fetched, pulled,
                   disk_before, prev_obtained, prev_clone_failed>>

\* clone_repositories, lines 261-268, then back in main: lines 341-343 (the
\* sync starts) when existing_repos was not empty, lines 365-377 otherwise
CloneEnd ==
    /\ pc = "clone"
    /\ i > Len(clone_list)
    /\ clone_result' = "none"
    /\ LET foot == OpenA(summary_file, CloneFooter(clone_successful, clone_failed))
       IN IF existing_repo_names # {}
          THEN /\ summary_file' = OpenA(foot, SyncHeader)
               /\ sync_pending' = SyncDirs(disk, repos, existing_repo_names)
               /\ pc' = "sync"
          ELSE /\ summary_file' = OpenA(foot,
                       FinalStatus(Cardinality(LocalRepos(disk)), repos))
               /\ sync_pending' = sync_pending
               /\ pc' = "done"
    /\ UNCHANGED <<run, served, disk, page, repos, status, existing_repo_names,
                   clone_list, i, clone_successful, clone_failed, sync_successful,
                   sync_failed, fetch_result, pull_result, sync_outcome, cloned,
                   fetched, pulled, clone_target, disk_before, prev_obtained,
                   prev_clone_failed>>

\* variant of SyncOutcome: the result of fetch is looked at first
SyncOutcomeFetchFirst(fr, pr) ==
    IF Raises(fr) \/ Raises(pr) THEN "sync failed"
    ELSE IF fr = "ok" THEN "fetched only"
    ELSE IF pr = "ok" THEN "synced"
    ELSE "sync failed"

\* sync_repositories, lines 172-192: the outcome of one repository from the
\* results of git fetch and git pull; an exception of either lands in the
\* except branch
SyncOutcome(fr, pr) ==
    IF Raises(fr) \/ Raises(pr) THEN "sync failed"
    ELSE IF pr = "ok" THEN "synced"
    ELSE IF fr = "ok" THEN "fetched only"
    ELSE "sync failed"

\* the results git pull can have after a fetch result: a fetch that raises
\* leaves the try block before pull is started (lines 154-170, 188)
PullResults(fr) == IF Raises(fr) THEN {"skipped"} ELSE Results

\* for repo_dir in master_folder.iterdir(): the next directory of the listing
\* (the order of a listing is the file system's; it is taken as fixed)
NextListed(pending) ==
    LET k == CHOOSE j \in 1..Len(Listing) :
                 /\ Listing[j] \in pending
                 /\ \A h \in 1..(j - 1) : Listing[h] \notin pending
    IN Listing[k]

\* sync_repositories, lines 149-192: one iteration of the loop
SyncOne ==
    /\ pc = "sync"
    /\ sync_pending # {}
    /\ \E d \in {NextListed(sync_pending)} : \E fr \in Results : \E pr \in PullResults(fr) :
        /\ sync_pending' = sync_pending \ {d}
        /\ fetch_result' = fr
        /\ pull_result' = pr
        /\ fetched' = [fetched EXCEPT ![d] = @ + 1]
        /\ pulled' = [pulled EXCEPT ![d] = IF pr = "skipped" THEN @ ELSE @ + 1]
        /\ sync_outcome' = SyncOutcome(fr, pr)
        /\ summary_file' = OpenA(summary_file, <<Line(SyncOutcome(fr, pr), d, 0, 0)>>)
        /\ IF SyncOutcome(fr, pr) = "sync failed"
           THEN /\ sync_failed' = sync_failed + 1
                /\ sync_successful' = sync_successful
           ELSE /\ sync_successful' = sync_successful + 1
                /\ sync_failed' = sync_failed
    /\ UNCHANGED <<run, pc, served, disk, page, repos, status, existing_repo_names,
                   clone_list, i, clone_successful, clone_failed, cloned,
                   clone_target, clone_result, disk_before, prev_obtained,
                   prev_clone_failed>>

\* sync_repositories, lines 194-203, then main, lines 345-359
SyncEnd ==
    /\ pc = "sync"
    /\ sync_pending = {}
    /\ summary_file' = OpenA(OpenA(summary_file, SyncFooter(sync_successful, sync_failed)),
                             FinalStatus(Cardinality(LocalRepos(disk)), repos))
    /\ fetch_result' = "none" /\ pull_result' = "none" /\ sync_outcome' = "none"
    /\ pc' = "done"
    /\ UNCHANGED <<run, served, disk, page, repos, status, existing_repo_names,
                   clone_list, i, clone_successful, clone_failed, sync_pending,
                   sync_successful, sync_failed, cloned, fetched, pulled,
                   clone_target, clone_result, disk_before, prev_obtained,
                   prev_clone_failed>>

Next == MainStart \/ GetPage \/ Reconcile \/ CloneOne \/ CloneEnd \/ SyncOne \/ SyncEnd

Spec == Init /\ [][Next]_vars

TypeOK ==
    /\ run \in 0..MaxRuns
    /\ pc \in {"idle", "fetch", "reconcile", "clone", "sync", "done"}
    /\ disk \in [Names -> DiskStates]

\* ---------------------------------------------------------------- properties
\* The terms of the specification, over the state of a run.
IsPrefix(s, u) == Len(s) <= Len(u) /\ SubSeq(u, 1, Len(s)) = s
LinesOf(kinds, n) ==
    Cardinality({k \in 1..Len(summary_file) :
                    summary_file[k][1] \in kinds /\ summary_file[k][2] = n})
KindCount(kinds) ==
    Cardinality({k \in 1..Len(summary_file) : summary_file[k][1] \in kinds})
LastLine == summary_file[Len(summary_file)]

Returned == pc \in {"reconcile", "clone", "sync", "done"}   \* get_repositories is over
L == {n \in Names : disk_before[n] = "repo"}     \* local repositories before any clone
ToClone == SelectSeq(repos, LAMBDA r : r.name \notin L)
ToSync == L \cap NamesOf(repos)
Outcomes == clone_successful + clone_failed + sync_successful + sync_failed
Synced == {n \in Names : fetched[n] > 0}
OnDisk == {n \in Names : disk[n] = "repo"}
Orphan(n) == Returned /\ disk_before[n] = "repo" /\ n \notin NamesOf(repos)

\* C1 as stated: a local repository with no record in D is never touched during
\* a run: no clone, no fetch, no pull, and it is still a repository.
C1_OrphanUntouched ==
    \A n \in Names : Orphan(n) =>
        cloned[n] = 0 /\ fetched[n] = 0 /\ pulled[n] = 0 /\ disk[n] = "repo"

\* C1 amended: a local repository with no record in D is never cloned and never
\* deleted, but it is synced: it receives at most one fetch and one pull, never
\* a pull without a fetch, and by the end of a run that obtained a non-empty D
\* it has been fetched exactly once; a run that obtained no D leaves it alone.
C1_OrphanSyncedNotCloned ==
    \A n \in Names : Orphan(n) =>
        /\ cloned[n] = 0
        /\ disk[n] = "repo"
        /\ pulled[n] <= fetched[n] /\ fetched[n] <= 1
        /\ (pc = "done" => fetched[n] = IF repos # <<>> THEN 1 ELSE 0)

C1_Witness ==
    /\ pc = "done"
    /\ \E n, m \in Names : Orphan(n) /\ fetched[n] = 1 /\ pulled[n] = 1 /\ cloned[m] = 1

\* C2 as stated: within one run no repository receives both a clone and a sync.
C2_NeverCloneAndSync ==
    \A n \in Names : ~(cloned[n] > 0 /\ fetched[n] > 0)

\* C2 amended: within one run every repository receives at most one clone and
\* at most one sync, every clone comes before every sync, and a repository
\* cloned in this run is synced in the same run exactly when the scan found a
\* local repository (L is not empty) and the clone left a directory with .git.
C2_CloneThenSync ==
    /\ \A n \in Names : cloned[n] <= 1 /\ fetched[n] <= 1
    /\ pc = "clone" => Synced = {}
    /\ pc = "done" =>
         \A n \in Names : cloned[n] = 1 =>
            (fetched[n] = 1 <=> (L # {} /\ disk[n] = "repo"))

C2_Witness ==
    /\ pc = "done"
    /\ \E n, m \in Names :
         /\ n \notin L /\ cloned[n] = 1 /\ fetched[n] = 1
         /\ m \in L /\ cloned[m] = 0 /\ fetched[m] = 1

\* C3 as stated: at the end of every run the number of outcomes recorded is
\* len(toClone) + len(toSync), toSync being L restricted to the names of D.
C3_OutcomesPlan ==
    pc = "done" => Outcomes = Len(ToClone) + Cardinality(ToSync)

\* C3 amended: at the end of every run the number of outcomes recorded is
\* len(toClone) plus, when D was obtained and L is not empty, the number of
\* local repositories on disk when the sync runs (all of L, with or without a
\* record in D, and the clones of this run that left .git); when L is empty no
\* sync runs and the number is len(toClone).
C3_OutcomesDisk ==
    pc = "done" =>
        Outcomes = Len(ToClone)
                   + (IF repos # <<>> /\ L # {} THEN Cardinality(OnDisk) ELSE 0)

C3_Witness ==
    /\ pc = "done"
    /\ Len(ToClone) >= 1 /\ ToSync # {}
    /\ clone_failed >= 1 /\ sync_failed >= 1 /\ sync_successful >= 1

C5_ClassifiedBySuccess ==
    /\ \A n \in Names : pulled[n] <= fetched[n]
    /\ sync_outcome # "none" =>
         sync_outcome = (IF pull_result = "ok" THEN "synced"
                         ELSE IF fetch_result = "ok" THEN "fetched only"
                         ELSE "sync failed")

\* C5 amended: when both git fetch and git pull return, the outcome is "synced"
\* when pull exits 0, else "fetched only" when fetch exits 0, else "sync
\* failed"; when fetch or pull raises (timeout or spawn failure) the outcome is
\* "sync failed" whatever the other did, and pull is not started after a fetch
\* that raised.  "synced" and "fetched only" are counted successful, "sync
\* failed" is counted failed, and fetch is attempted before pull.
C5_ClassifiedByExit ==
    /\ \A n \in Names : pulled[n] <= fetched[n]
    /\ sync_successful = KindCount({"synced", "fetched only"})
    /\ sync_failed = KindCount({"sync failed"})
    /\ sync_outcome # "none" =>
         /\ sync_outcome = LastLine[1]
         /\ (pull_result = "skipped") <=> (fetch_result = "raises")
         /\ sync_outcome =
              (IF fetch_result = "raises" \/ pull_result = "raises" THEN "sync failed"
               ELSE IF pull_result = "ok" THEN "synced"
               ELSE IF fetch_result = "ok" THEN "fetched only"
               ELSE "sync failed")

C5_Witness ==
    /\ sync_outcome = "sync failed" /\ fetch_result = "ok" /\ pull_result = "raises"
    /\ sync_successful >= 1

\* The part C6 as stated and C6 amended share: no failure ends the run, and
\* there is no retry.  In the clone loop the repositories before the index have
\* received exactly one clone and one line, the others none; once the loop is
\* over every repository passed to clone_repositories has received exactly one
\* clone attempt; the counters are the numbers of lines; at the end of a run
\* that syncs, every local repository has received exactly one sync.
C6_EveryRepositoryAttempted ==
    /\ clone_successful = KindCount({"clone ok"})
    /\ clone_failed = KindCount({"clone FAILED"})
    /\ clone_successful + clone_failed = (IF pc = "clone" THEN i - 1 ELSE Len(clone_list))
    /\ i <= Len(clone_list) + 1
    /\ Returned =>
         \A k \in 1..Len(clone_list) :
            LET n == clone_list[k].name
                done == pc # "clone" \/ k < i
            IN /\ cloned[n] = (IF done /\ pc # "reconcile" THEN 1 ELSE 0)
               /\ LinesOf({"clone ok", "clone FAILED"}, n) = cloned[n]
    /\ \A n \in Names :
         /\ LinesOf({"synced", "fetched only", "sync failed"}, n) = fetched[n]
         /\ fetched[n] <= 1
    /\ (pc = "done" /\ repos # <<>> /\ L # {}) => Synced = OnDisk

\* C6 as stated: every subprocess failure (non-zero exit, timeout or spawn
\* failure of git clone, fetch or pull) is counted as one failed outcome for
\* its repository, the run goes on, and every repository is attempted once.
C6_FailureCountedFailed ==
    /\ C6_EveryRepositoryAttempted
    /\ clone_result \notin {"none", "ok"} => LastLine[1] = "clone FAILED"
    /\ (sync_outcome # "none" /\ (fetch_result # "ok" \/ pull_result # "ok")) =>
         LastLine[1] = "sync failed"

\* C6 amended: no subprocess failure ends the run and nothing is retried: every
\* repository passed to clone_repositories receives exactly one clone attempt
\* and every local repository of a run that syncs exactly one sync, the later
\* ones included.  A clone that exits non-zero or raises is counted as exactly
\* one failed outcome.  A sync is counted as exactly one outcome: failed when
\* fetch or pull raises or when both exit non-zero, successful when only one of
\* fetch and pull exits non-zero.
C6_FailureCountedOnce ==
    /\ C6_EveryRepositoryAttempted
    /\ clone_result # "none" =>
         LastLine[1] = (IF clone_result = "ok" THEN "clone ok" ELSE "clone FAILED")
    /\ sync_outcome # "none" =>
         LET failed == \/ fetch_result = "raises" \/ pull_result = "raises"
                       \/ (fetch_result = "nonzero" /\ pull_result = "nonzero")
         IN LastLine[1] = "sync failed" <=> failed

C6_Witness ==
    /\ pc = "sync"
    /\ clone_failed >= 1 /\ clone_successful >= 1
    /\ sync_outcome = "synced" /\ fetch_result = "nonzero"
    /\ sync_failed >= 1

\* C7: when a page request answers a status other than 200 (on the first page
\* or on a later one) or the organization has no repositories, get_repositories
\* returns an empty result and main() ends with no clone and no sync, the
\* summary file holding the run header only.
C7_NoDesiredSetNoOperation ==
    (pc = "done" /\ (status # 200 \/ served = <<>>)) =>
        /\ repos = <<>>
        /\ \A n \in Names : cloned[n] = 0 /\ fetched[n] = 0 /\ pulled[n] = 0
        /\ Outcomes = 0
        /\ disk = disk_before
        /\ summary_file = Header

C7_Witness ==
    pc = "done" /\ status = 404 /\ page = 2 /\ Len(served) = 3 /\ summary_file = Header

\* C8 as stated: the summary file is append-only across runs: no step of any
\* run removes or changes a line that is already in the file.
C8_AppendOnlyAcrossRuns ==
    [][IsPrefix(summary_file, summary_file')]_vars

\* C8 amended: the summary file is append-only within a run.  The start of a
\* run opens it with 'w', which leaves the header of that run alone in the
\* file, the lines of earlier runs being lost; every other step of the run
\* keeps the lines in the file and appends.
C8_AppendOnlyWithinRun ==
    [][/\ run' = run => IsPrefix(summary_file, summary_file')
       /\ run' # run => summary_file' = Header]_vars

C8_Witness ==
    run = 2 /\ prev_obtained /\ pc = "done" /\ Len(summary_file) > Len(Header)

\* C9: when every page request succeeds, get_repositories asks for the pages 1,
\* 2, 3, ... of the fixed size, stops at the first page without records and
\* returns the records served, each once, in the API's order; the loop ends as
\* soon as an empty page or an error status is received.
C9_AllPagesInOrder ==
    /\ pc = "fetch" =>
         /\ status = 200
         /\ (page - 1) * per_page <= Len(served) + per_page - 1
         /\ repos = SubSeq(served, 1, Min((page - 1) * per_page, Len(served)))
    /\ (pc # "fetch" /\ run >= 1 /\ status = 200) =>
         /\ repos = served
         /\ (page - 1) * per_page >= Len(served)
         /\ (page - 2) * per_page < Len(served) \/ page = 1
    /\ (pc # "fetch" /\ status # 200) => repos = <<>>

C9_Witness ==
    /\ pc = "reconcile" /\ status = 200
    /\ page > 2 /\ Len(repos) > per_page /\ Len(repos) < 2 * per_page

\* C10 as stated: every path handed to git clone is absent from the disk when
\* the clone starts.
C10_CloneTargetAbsent ==
    \A n \in Names : clone_target[n] \in {"none", "absent"}

\* C10 amended: every path handed to git clone holds no .git when the clone
\* starts, so it is not a local repository; it is absent or it is a directory
\* without .git, which the scan of main does not count as an existing
\* repository.
C10_CloneTargetNotARepository ==
    \A n \in Names :
        /\ clone_target[n] # "repo"
        /\ cloned[n] > 0 => (clone_target[n] \in {"absent", "dir"} /\ n \notin L)

C10_Witness ==
    \E n, m \in Names :
        /\ clone_target[n] = "dir" /\ disk[n] = "repo"
        /\ clone_target[m] = "absent"
        /\ L # {}

====
